---- MODULE Spec2Model ----
(***************************************************************************)
(* MutexMap (package sync of dkinzler/kit): a registry of per-key mutexes  *)
(* with reference counting.  Every statement of Lock, unlock and           *)
(* keyMutex.Unlock is one atomic step of the calling goroutine.            *)
(***************************************************************************)
EXTENDS Integers, Sequences, FiniteSets, TLC

(* ---------------------------------------------------------------- bounds *)
NumGoroutines == 3
NumRequests == 2

Goroutines == 1..NumGoroutines

\* the keys the goroutines lock: any strings, the empty one included; two keys
\* give every case of "the same key" and "another key"
Keys == {"", "a"}

\* a goroutine references at most two records (nested locking), the map one per key
RecIds == 1..(2 * NumGoroutines + Cardinality(Keys))

NoOne == 0
NilRec == 0
NoKey == "<none>"

VARIABLES
    lock,       \* MutexMap.lock: the goroutine holding the top-level guard, or NoOne
    keyToLock,  \* MutexMap.keyToLock: a function from the keys present to record ids
    recs,       \* the heap of keyMutex records: record id -> [key, count, inner]
    pc,         \* the statement each goroutine is about to execute
    key,        \* the key argument of the call a goroutine is in
    km,         \* the local variable km of Lock / unlock
    held,       \* the Unlockers a goroutine got from Lock and has not yet unlocked
    solo,       \* history: the goroutine whose Lock call has run alone since it began
    released,   \* history: some Unlock() call has returned
    kept,       \* the Unlocker a goroutine keeps to call Unlock() on it once more
    made,       \* for a Lock call that is watched: whether it inserted its record
    srv,        \* RunDefaultServer: its goroutines, channels and http.Server
    reqs,       \* the requests served through PanicMiddleware
    sess        \* one session.Session and the goroutines that call its methods

\* the state of the MutexMap and of the goroutines that use it
mmVars == <<lock, keyToLock, recs, pc, key, km, held, solo, released, kept, made>>

\* the state of the http server (package transport/http)
httpVars == <<srv, reqs>>

\* the state of the session (package session)
sessVars == <<sess>>

\* the requests served through the handler PanicMiddleware returns
Requests == 1..NumRequests

\* net/http status codes; NoStatus: no header has been written
NoStatus == 0
StatusOK == 200
StatusInternalServerError == 500

\* the values the wrapped handler panics with, panic(nil) among them
NoPanic == "<no panic>"
NilValue == "nil"
PanicValues == {"xyz", NilValue}

\* what recover() returns for a panic with value v: v itself, and for
\* panic(nil) either nil (go before 1.21, or GODEBUG=panicnil=1) or a
\* *runtime.PanicNilError
Recovered(v) == IF v = NilValue THEN {NilValue, "PanicNilError"} ELSE {v}

\* the onPanic argument of PanicMiddleware: a function or nil; RunDefaultServer
\* passes config.OnPanicFunc, which NewServerConfig() leaves nil
OnPanicFuncs == {"func", "nil"}

\* ResponseWriter.WriteHeader(code): the first call sets the status of the
\* response, a later call is superfluous and changes nothing
WriteHeader(status, code) == IF status = NoStatus THEN code ELSE status

\* the errors of the server: nil, http.ErrServerClosed, any other error of
\* ListenAndServe, and the error of a Shutdown whose context expired
NilError == "nil"
ErrServerClosed == "http: Server closed"
ListenError == "listen error"
DeadlineExceeded == "context deadline exceeded"

\* config.OnShutdownFunc, the onShutdown argument of HandleShutdown
OnShutdownFuncs == {"func", "nil"}

\* the closeChan argument of RunDefaultServer: a channel, or nil
CloseChans == {"chan", "nil"}

\* RunDefaultServer not yet called
NewSrv == [main |-> "new", onShutdown |-> "nil", closeChan |-> "nil",
           err |-> NilError, returnError |-> NilError,
           c |-> 0, sent |-> 0, sig |-> 0, closeReady |-> FALSE,
           sigpc |-> "new", hpc |-> "new", server |-> "new",
           shutdown |-> FALSE, shutdownErr |-> NilError,
           calls |-> <<>>, log |-> <<>>]

\* a request not yet passed to ServeHTTP
NewReq == [pc |-> "new", onPanic |-> "func", status |-> NoStatus, wrote |-> NoStatus,
           panic |-> NoPanic, e |-> NilValue, calls |-> <<>>]

\* the goroutines that call the methods of one Session, the keys they use
\* and the number of calls they make in one behaviour
NumCallers == 3
MaxCalls == 3
Callers == 1..NumCallers
SessionKeys == {"x", "y"}

\* the nil interface value; the values stored are the positive integers
NilInterface == 0

\* the functions passed as updateFn: "incr" stores old+1 (1 when there is
\* no old value), "refuse" computes the same value and returns ok = false,
\* "nil" returns a nil value and ok = true
UpdateFns == {"incr", "refuse", "nil"}
updateFn(f, oldValue, ok) ==
    CASE f = "incr"   -> <<IF ok THEN oldValue + 1 ELSE 1, TRUE>>
      [] f = "refuse" -> <<IF ok THEN oldValue + 1 ELSE 1, FALSE>>
      [] f = "nil"    -> <<NilInterface, TRUE>>

\* NewSession(): an unlocked mutex and an empty map; no goroutine is in a call
NewSession ==
    [mutex    |-> NoOne,
     values   |-> <<>>,
     pc       |-> [c \in Callers |-> "idle"],
     key      |-> [c \in Callers |-> "x"],
     fn       |-> [c \in Callers |-> "incr"],
     oldValue |-> [c \in Callers |-> NilInterface],
     ok       |-> [c \in Callers |-> FALSE],
     newValue |-> [c \in Callers |-> NilInterface],
     ret      |-> [c \in Callers |-> <<>>],
     calls    |-> 0,
     incs     |-> [k \in SessionKeys |-> 0],
     seen     |-> [c \in Callers |-> <<>>]]

vars == <<mmVars, httpVars, sessVars>>

(* --------------------------------------------------------------- helpers *)
Range(f) == {f[x] : x \in DOMAIN f}

Top(s) == s[Len(s)]

Pop(s) == SubSeq(s, 1, Len(s) - 1)

\* the zero value of a keyMutex
ZeroRec == [key |-> NoKey, count |-> 0, inner |-> FALSE]

\* a record id no pointer of the program refers to
Free(r) ==
    /\ r \notin Range(keyToLock)
    /\ \A g \in Goroutines : km[g] # r /\ r \notin Range(held[g]) /\ kept[g] # r

\* &keyMutex{...}: a fresh address
NewRec == CHOOSE r \in RecIds : Free(r) /\ \A s \in 1..(r - 1) : ~Free(s)

\* the goroutine g is counted in the record for k: it has incremented the
\* count in Lock(k) and has not yet decremented it in unlock(k)
Counted(g, k) ==
    \/ pc[g] \in {"Lock_unlock", "Lock_inner"} /\ key[g] = k
    \/ \E i \in 1..Len(held[g]) :
          /\ recs[held[g][i]].key = k
          /\ ~(i = Len(held[g]) /\ pc[g] \in {"unlock_delete", "unlock_unlock", "Unlock_inner"})

\* the heap after a goroutine dropped its pointer to r: a record that neither
\* the map nor any goroutine refers to is garbage, and is collected
Collect(heap, r, map, locals, handles) ==
    IF \/ r \in Range(map)
       \/ \E g \in Goroutines : locals[g] = r \/ r \in Range(handles[g]) \/ kept[g] = r
    THEN heap
    ELSE [heap EXCEPT ![r] = ZeroRec]

\* the history variable: a step of g keeps g's solo run going and ends any other
Alone(g) == solo' = IF solo = g THEN g ELSE NoOne

(* ------------------------------------------------------------------ Init *)
Init ==
    /\ lock = NoOne
    /\ keyToLock = <<>>
    /\ recs = [r \in RecIds |-> ZeroRec]
    /\ pc = [g \in Goroutines |-> "idle"]
    /\ key = [g \in Goroutines |-> NoKey]
    /\ km = [g \in Goroutines |-> NilRec]
    /\ held = [g \in Goroutines |-> <<>>]
    /\ solo = NoOne
    /\ released = FALSE
    /\ kept = [g \in Goroutines |-> NilRec]
    /\ made = [g \in Goroutines |-> "-"]
    /\ srv = NewSrv
    /\ reqs = [i \in Requests |-> NewReq]
    /\ sess = NewSession

(* ---------------------------------------------------------- MutexMap.Lock *)
\* a goroutine holding no key calls mm.Lock(k)
CallLock(g, k) ==
    /\ pc[g] = "idle"
    /\ held[g] = <<>>
    /\ pc' = [pc EXCEPT ![g] = "Lock_lock"]
    /\ key' = [key EXCEPT ![g] = k]
    /\ solo' = IF lock = NoOne /\ \A h \in Goroutines \ {g} : ~Counted(h, k)
               THEN g ELSE NoOne
    /\ UNCHANGED <<lock, keyToLock, recs, km, held, released, kept, made, httpVars, sessVars>>

\* mutant: Lock goes on to the map without waiting for the guard
Lock_lock_NoWait(g) ==
    /\ pc[g] = "Lock_lock"
    /\ lock' = IF lock = NoOne THEN g ELSE lock
    /\ pc' = [pc EXCEPT ![g] = "Lock_lookup"]
    /\ Alone(g)
    /\ UNCHANGED <<keyToLock, recs, key, km, held, released, kept, made, httpVars, sessVars>>

\* mm.lock.Lock()
Lock_lock(g) ==
    /\ pc[g] = "Lock_lock"
    /\ lock = NoOne
    /\ lock' = g
    /\ pc' = [pc EXCEPT ![g] = "Lock_lookup"]
    /\ Alone(g)
    /\ UNCHANGED <<keyToLock, recs, key, km, held, released, kept, made, httpVars, sessVars>>

\* mutant: Lock never looks the key up and always stores a new record
Lock_lookup_AlwaysNew(g) ==
    /\ pc[g] = "Lock_lookup"
    /\ LET new == NewRec
       IN  /\ km' = [km EXCEPT ![g] = new]
           /\ recs' = [recs EXCEPT ![new] = [key |-> key[g], count |-> 0, inner |-> FALSE]]
           /\ keyToLock' = [k \in DOMAIN keyToLock \cup {key[g]} |->
                               IF k = key[g] THEN new ELSE keyToLock[k]]
    /\ pc' = [pc EXCEPT ![g] = "Lock_incr"]
    /\ made' = [made EXCEPT ![g] = IF @ = "-" THEN "-" ELSE "inserted"]
    /\ Alone(g)
    /\ UNCHANGED <<lock, key, held, released, kept, httpVars, sessVars>>

\* mutant: the lookup ignores the key and takes a record that is in the map
Lock_lookup_AnyKey(g) ==
    /\ pc[g] = "Lock_lookup"
    /\ IF DOMAIN keyToLock # {}
       THEN /\ km' = [km EXCEPT ![g] = keyToLock[CHOOSE k \in DOMAIN keyToLock : TRUE]]
            /\ UNCHANGED <<keyToLock, recs>>
       ELSE LET new == NewRec
            IN  /\ km' = [km EXCEPT ![g] = new]
                /\ recs' = [recs EXCEPT ![new] = [key |-> key[g], count |-> 0, inner |-> FALSE]]
                /\ keyToLock' = [k \in DOMAIN keyToLock \cup {key[g]} |->
                                    IF k = key[g] THEN new ELSE keyToLock[k]]
    /\ pc' = [pc EXCEPT ![g] = "Lock_incr"]
    /\ made' = [made EXCEPT ![g] = IF @ = "-" THEN "-"
                                ELSE IF DOMAIN keyToLock # {} THEN "found" ELSE "inserted"]
    /\ Alone(g)
    /\ UNCHANGED <<lock, key, held, released, kept, httpVars, sessVars>>

\* km, ok := mm.keyToLock[key]; if !ok { km = &keyMutex{...}; mm.keyToLock[key] = km }
Lock_lookup(g) ==
    /\ pc[g] = "Lock_lookup"
    /\ IF key[g] \in DOMAIN keyToLock
       THEN /\ km' = [km EXCEPT ![g] = keyToLock[key[g]]]
            /\ UNCHANGED <<keyToLock, recs>>
       ELSE LET new == NewRec
            IN  /\ km' = [km EXCEPT ![g] = new]
                /\ recs' = [recs EXCEPT ![new] = [key |-> key[g], count |-> 0, inner |-> FALSE]]
                /\ keyToLock' = [k \in DOMAIN keyToLock \cup {key[g]} |->
                                    IF k = key[g] THEN new ELSE keyToLock[k]]
    /\ pc' = [pc EXCEPT ![g] = "Lock_incr"]
    /\ made' = [made EXCEPT ![g] = IF @ = "-" THEN "-"
                                ELSE IF key[g] \in DOMAIN keyToLock THEN "found" ELSE "inserted"]
    /\ Alone(g)
    /\ UNCHANGED <<lock, key, held, released, kept, httpVars, sessVars>>

\* mutant: the count is incremented only for a record that was already there
Lock_incr_OnlyExisting(g) ==
    /\ pc[g] = "Lock_incr"
    /\ recs' = [recs EXCEPT ![km[g]].count = IF @ = 0 THEN 0 ELSE @ + 1]
    /\ pc' = [pc EXCEPT ![g] = "Lock_unlock"]
    /\ Alone(g)
    /\ UNCHANGED <<lock, keyToLock, key, km, held, released, kept, made, httpVars, sessVars>>

\* km.count++
Lock_incr(g) ==
    /\ pc[g] = "Lock_incr"
    /\ recs' = [recs EXCEPT ![km[g]].count = @ + 1]
    /\ pc' = [pc EXCEPT ![g] = "Lock_unlock"]
    /\ Alone(g)
    /\ UNCHANGED <<lock, keyToLock, key, km, held, released, kept, made, httpVars, sessVars>>

\* mutant: the guard is released by a defer, that is after km.inner.Lock()
Lock_unlock_Deferred(g) ==
    /\ pc[g] = "Lock_unlock"
    /\ pc' = [pc EXCEPT ![g] = "Lock_inner"]
    /\ Alone(g)
    /\ UNCHANGED <<lock, keyToLock, recs, key, km, held, released, kept, made, httpVars, sessVars>>

\* mm.lock.Unlock()
Lock_unlock(g) ==
    /\ pc[g] = "Lock_unlock"
    /\ lock' = NoOne
    /\ pc' = [pc EXCEPT ![g] = "Lock_inner"]
    /\ Alone(g)
    /\ UNCHANGED <<keyToLock, recs, key, km, held, released, kept, made, httpVars, sessVars>>

\* mutant: Lock returns without waiting for the inner lock
Lock_inner_NoWait(g) ==
    /\ pc[g] = "Lock_inner"
    /\ recs' = [recs EXCEPT ![km[g]].inner = TRUE]
    /\ held' = [held EXCEPT ![g] = Append(@, km[g])]
    /\ km' = [km EXCEPT ![g] = NilRec]
    /\ key' = [key EXCEPT ![g] = NoKey]
    /\ pc' = [pc EXCEPT ![g] = "idle"]
    /\ made' = [made EXCEPT ![g] = "-"]
    /\ Alone(g)
    /\ UNCHANGED <<lock, keyToLock, released, kept, httpVars, sessVars>>

\* km.inner.Lock(); return km
Lock_inner(g) ==
    /\ pc[g] = "Lock_inner"
    /\ ~recs[km[g]].inner
    /\ recs' = [recs EXCEPT ![km[g]].inner = TRUE]
    /\ held' = [held EXCEPT ![g] = Append(@, km[g])]
    /\ km' = [km EXCEPT ![g] = NilRec]
    /\ key' = [key EXCEPT ![g] = NoKey]
    /\ pc' = [pc EXCEPT ![g] = "idle"]
    /\ made' = [made EXCEPT ![g] = "-"]
    /\ Alone(g)
    /\ UNCHANGED <<lock, keyToLock, released, kept, httpVars, sessVars>>

(* ------------------------------------- keyMutex.Unlock / MutexMap.unlock *)
\* the holder calls Unlock() on the handle it got last: km.mm.unlock(km.key)
CallUnlock(g) ==
    /\ pc[g] = "idle"
    /\ held[g] # <<>>
    /\ key' = [key EXCEPT ![g] = recs[Top(held[g])].key]
    /\ pc' = [pc EXCEPT ![g] = "unlock_lock"]
    /\ solo' = NoOne
    /\ UNCHANGED <<lock, keyToLock, recs, km, held, released, kept, made, httpVars, sessVars>>

\* mm.lock.Lock()
unlock_lock(g) ==
    /\ pc[g] = "unlock_lock"
    /\ lock = NoOne
    /\ lock' = g
    /\ pc' = [pc EXCEPT ![g] = "unlock_lookup"]
    /\ Alone(g)
    /\ UNCHANGED <<keyToLock, recs, key, km, held, released, kept, made, httpVars, sessVars>>

\* km, ok := mm.keyToLock[key]; if !ok { panic(...) }
\* (the deferred mm.lock.Unlock() runs while the panic unwinds)
unlock_lookup(g) ==
    /\ pc[g] = "unlock_lookup"
    /\ IF key[g] \in DOMAIN keyToLock
       THEN /\ km' = [km EXCEPT ![g] = keyToLock[key[g]]]
            /\ pc' = [pc EXCEPT ![g] = "unlock_decr"]
            /\ lock' = lock
       ELSE /\ km' = km
            /\ pc' = [pc EXCEPT ![g] = "panic"]
            /\ lock' = NoOne
    /\ Alone(g)
    /\ UNCHANGED <<keyToLock, recs, key, held, released, kept, made, httpVars, sessVars>>

\* mutant: the inner lock is released together with the decrement, before
\* the removal and before the guard is released
unlock_decr_InnerFirst(g) ==
    /\ pc[g] = "unlock_decr"
    /\ recs' = [recs EXCEPT ![km[g]].count = @ - 1, ![Top(held[g])].inner = FALSE]
    /\ pc' = [pc EXCEPT ![g] = "unlock_delete"]
    /\ Alone(g)
    /\ UNCHANGED <<lock, keyToLock, key, km, held, released, kept, made, httpVars, sessVars>>

\* mutant: unlock decrements the record of the handle, not the record it
\* found under the key
unlock_decr_ByHandle(g) ==
    /\ pc[g] = "unlock_decr"
    /\ recs' = [recs EXCEPT ![Top(held[g])].count = @ - 1]
    /\ pc' = [pc EXCEPT ![g] = "unlock_delete"]
    /\ Alone(g)
    /\ UNCHANGED <<lock, keyToLock, key, km, held, released, kept, made, httpVars, sessVars>>

\* km.count--
unlock_decr(g) ==
    /\ pc[g] = "unlock_decr"
    /\ recs' = [recs EXCEPT ![km[g]].count = @ - 1]
    /\ pc' = [pc EXCEPT ![g] = "unlock_delete"]
    /\ Alone(g)
    /\ UNCHANGED <<lock, keyToLock, key, km, held, released, kept, made, httpVars, sessVars>>

\* mutant: the record is never deleted
unlock_delete_Never(g) ==
    /\ pc[g] = "unlock_delete"
    /\ pc' = [pc EXCEPT ![g] = "unlock_unlock"]
    /\ Alone(g)
    /\ UNCHANGED <<lock, keyToLock, recs, key, km, held, released, kept, made, httpVars, sessVars>>

\* mutant: the record is deleted on every unlock, waiters or not
unlock_delete_Always(g) ==
    /\ pc[g] = "unlock_delete"
    /\ keyToLock' = [k \in DOMAIN keyToLock \ {key[g]} |-> keyToLock[k]]
    /\ pc' = [pc EXCEPT ![g] = "unlock_unlock"]
    /\ Alone(g)
    /\ UNCHANGED <<lock, recs, key, km, held, released, kept, made, httpVars, sessVars>>

\* if km.count == 0 { delete(mm.keyToLock, key) }
unlock_delete(g) ==
    /\ pc[g] = "unlock_delete"
    /\ IF recs[km[g]].count = 0
       THEN keyToLock' = [k \in DOMAIN keyToLock \ {key[g]} |-> keyToLock[k]]
       ELSE keyToLock' = keyToLock
    /\ pc' = [pc EXCEPT ![g] = "unlock_unlock"]
    /\ Alone(g)
    /\ UNCHANGED <<lock, recs, key, km, held, released, kept, made, httpVars, sessVars>>

\* defer mm.lock.Unlock(), on the return of unlock
unlock_unlock(g) ==
    /\ pc[g] = "unlock_unlock"
    /\ lock' = NoOne
    /\ km' = [km EXCEPT ![g] = NilRec]
    /\ pc' = [pc EXCEPT ![g] = "Unlock_inner"]
    /\ Alone(g)
    /\ UNCHANGED <<keyToLock, recs, key, held, released, kept, made, httpVars, sessVars>>

\* mutant: Unlock() forgets km.inner.Unlock()
Unlock_inner_Forgot(g) ==
    /\ pc[g] = "Unlock_inner"
    /\ held' = [held EXCEPT ![g] = Pop(@)]
    /\ recs' = Collect(recs, Top(held[g]), keyToLock, km, held')
    /\ key' = [key EXCEPT ![g] = NoKey]
    /\ pc' = [pc EXCEPT ![g] = "idle"]
    /\ Alone(g)
    /\ released' = TRUE
    /\ UNCHANGED <<lock, keyToLock, km, kept, made, httpVars, sessVars>>

\* mutant: Unlock() calls km.inner.Lock() where it should call km.inner.Unlock()
Unlock_inner_Relock(g) ==
    /\ pc[g] = "Unlock_inner"
    /\ ~recs[Top(held[g])].inner
    /\ held' = [held EXCEPT ![g] = Pop(@)]
    /\ recs' = Collect([recs EXCEPT ![Top(held[g])].inner = TRUE], Top(held[g]), keyToLock, km, held')
    /\ key' = [key EXCEPT ![g] = NoKey]
    /\ pc' = [pc EXCEPT ![g] = "idle"]
    /\ Alone(g)
    /\ released' = TRUE
    /\ UNCHANGED <<lock, keyToLock, km, kept, made, httpVars, sessVars>>

\* km.inner.Unlock(), on the receiver of Unlock(); sync.Mutex.Unlock ends the
\* program with the fatal error "sync: unlock of unlocked mutex" when the
\* mutex is not locked
Unlock_inner(g) ==
    /\ pc[g] = "Unlock_inner"
    /\ IF recs[Top(held[g])].inner
       THEN /\ held' = [held EXCEPT ![g] = Pop(@)]
            /\ recs' = Collect([recs EXCEPT ![Top(held[g])].inner = FALSE],
                               Top(held[g]), keyToLock, km, held')
            /\ key' = [key EXCEPT ![g] = NoKey]
            /\ pc' = [pc EXCEPT ![g] = "idle"]
            /\ released' = TRUE
       ELSE /\ pc' = [pc EXCEPT ![g] = "fatal"]
            /\ UNCHANGED <<held, recs, key, released>>
    /\ Alone(g)
    /\ UNCHANGED <<lock, keyToLock, km, kept, made, httpVars, sessVars>>

(* ----------------------------------------------------------- the program *)
\* goroutines that hold at most one key at a time (TestMutexMap)
Next ==
    \E g \in Goroutines :
        \/ \E k \in Keys : CallLock(g, k)
        \/ Lock_lock(g)
        \/ Lock_lookup(g)
        \/ Lock_incr(g)
        \/ Lock_unlock(g)
        \/ Lock_inner(g)
        \/ CallUnlock(g)
        \/ unlock_lock(g)
        \/ unlock_lookup(g)
        \/ unlock_decr(g)
        \/ unlock_delete(g)
        \/ unlock_unlock(g)
        \/ Unlock_inner(g)

Spec == Init /\ [][Next]_vars

(* ------------------------------------------------------ fair scheduling *)
\* the steps of g that wait for nothing
Bookkeeping(g) ==
    \/ Lock_lookup(g)
    \/ Lock_incr(g)
    \/ Lock_unlock(g)
    \/ unlock_lookup(g)
    \/ unlock_decr(g)
    \/ unlock_delete(g)
    \/ unlock_unlock(g)

\* every step of g but the calls of Lock
Work(g) ==
    \/ Lock_lock(g)
    \/ Bookkeeping(g)
    \/ Lock_inner(g)
    \/ CallUnlock(g)
    \/ unlock_lock(g)
    \/ Unlock_inner(g)

\* a runnable goroutine is scheduled, every holder calls Unlock(), and a
\* sync.Mutex hands the lock to a goroutine that keeps waiting for it
\* (starvation mode of sync.Mutex): a goroutine is at one statement at a
\* time, so that strong fairness of its steps together is strong fairness of
\* mm.lock.Lock() and km.inner.Lock() and weak fairness of the other steps
Fairness == \A g \in Goroutines : SF_vars(Work(g))

FairSpec == Init /\ [][Next]_vars /\ Fairness

(* --------------------------------------------------------- nested locks *)
\* "nested locks, i.e. trying to obtain a lock for key x while already
\* holding the lock for key y": odd goroutines lock "" and then "a" while
\* holding "", even goroutines lock "a" and then "" while holding "a"
FirstKey(g) == IF g % 2 = 1 THEN "" ELSE "a"

SecondKey(g) == IF g % 2 = 1 THEN "a" ELSE ""

CallLockFirst(g) == CallLock(g, FirstKey(g))

CallLockNested(g) ==
    /\ pc[g] = "idle"
    /\ Len(held[g]) = 1
    /\ pc' = [pc EXCEPT ![g] = "Lock_lock"]
    /\ key' = [key EXCEPT ![g] = SecondKey(g)]
    /\ solo' = NoOne
    /\ UNCHANGED <<lock, keyToLock, recs, km, held, released, kept, made, httpVars, sessVars>>

NestedNext ==
    \E g \in Goroutines :
        \/ CallLockFirst(g)
        \/ CallLockNested(g)
        \/ Work(g)

SpecNested == Init /\ [][NestedNext]_vars

(* ------------------------------------------------------- double unlock *)
\* the mark of a goroutine that has called Unlock() a second time
Again == -1

\* the goroutine that calls Unlock() twice on one handle
Misuser == 1

\* the first Unlock() call of a goroutine that keeps the handle
CallUnlockTwice(g) ==
    /\ pc[g] = "idle"
    /\ Len(held[g]) = 1
    /\ kept[g] = NilRec
    /\ kept' = [kept EXCEPT ![g] = Top(held[g])]
    /\ key' = [key EXCEPT ![g] = recs[Top(held[g])].key]
    /\ pc' = [pc EXCEPT ![g] = "unlock_lock"]
    /\ solo' = NoOne
    /\ UNCHANGED <<lock, keyToLock, recs, km, held, released, made, httpVars, sessVars>>

\* the second Unlock() call on the handle: km.mm.unlock(km.key)
CallUnlockAgain(g) ==
    /\ pc[g] = "idle"
    /\ held[g] = <<>>
    /\ kept[g] \in RecIds
    /\ held' = [held EXCEPT ![g] = <<kept[g]>>]
    /\ kept' = [kept EXCEPT ![g] = Again]
    /\ key' = [key EXCEPT ![g] = recs[kept[g]].key]
    /\ pc' = [pc EXCEPT ![g] = "unlock_lock"]
    /\ solo' = NoOne
    /\ UNCHANGED <<lock, keyToLock, recs, km, released, made, httpVars, sessVars>>

\* an unrecovered panic and a fatal error end the program
Alive == \A g \in Goroutines : pc[g] \notin {"panic", "fatal"}

\* goroutines that lock and unlock "a"; the misuser may unlock its handle
\* twice, and does nothing after that
MisuseNext ==
    /\ Alive
    /\ \E g \in Goroutines :
          \/ kept[g] = NilRec /\ CallLock(g, "a")
          \/ Work(g)
          \/ g = Misuser /\ CallUnlockTwice(g)
          \/ CallUnlockAgain(g)

SpecMisuse == Init /\ [][MisuseNext]_vars

(* ------------------------------------------------------------- re-entry *)
\* mm.Lock(key) called by a goroutine that holds the lock for that very key
CallLockHeld(g) ==
    /\ pc[g] = "idle"
    /\ Len(held[g]) = 1
    /\ pc' = [pc EXCEPT ![g] = "Lock_lock"]
    /\ key' = [key EXCEPT ![g] = recs[Top(held[g])].key]
    /\ solo' = NoOne
    /\ UNCHANGED <<lock, keyToLock, recs, km, held, released, kept, made, httpVars, sessVars>>

\* goroutines that lock and unlock, and may call Lock for the key they hold
ReentrantNext ==
    \E g \in Goroutines :
        \/ \E k \in Keys : CallLock(g, k)
        \/ CallLockHeld(g)
        \/ Work(g)

SpecReentrant == Init /\ [][ReentrantNext]_vars

(* ---------------------------------------------------------- watched Lock *)
\* mm.Lock(k), watched: its lookup records whether it found the record for
\* k in the map or inserted a new one
CallLockWatched(g, k) ==
    /\ pc[g] = "idle"
    /\ held[g] = <<>>
    /\ pc' = [pc EXCEPT ![g] = "Lock_lock"]
    /\ key' = [key EXCEPT ![g] = k]
    /\ made' = [made EXCEPT ![g] = "called"]
    /\ solo' = NoOne
    /\ UNCHANGED <<lock, keyToLock, recs, km, held, released, kept, httpVars, sessVars>>

\* goroutines that lock and unlock one key at a time, every Lock watched
WatchedNext ==
    \E g \in Goroutines :
        \/ \E k \in Keys : CallLockWatched(g, k)
        \/ Work(g)

SpecWatched == Init /\ [][WatchedNext]_vars

(* ------------------------------------------------------------ hand-over *)
\* the mark of a goroutine that was given a handle by another goroutine
Handed == -2

\* goroutine a, which holds a handle, passes it to goroutine b, which holds
\* none; the Unlocker is an ordinary value
HandOver(a, b) ==
    /\ a # b
    /\ pc[a] = "idle" /\ pc[b] = "idle"
    /\ Len(held[a]) = 1 /\ held[b] = <<>>
    /\ held' = [held EXCEPT ![a] = <<>>, ![b] = held[a]]
    /\ kept' = [kept EXCEPT ![b] = Handed]
    /\ solo' = NoOne
    /\ UNCHANGED <<lock, keyToLock, recs, pc, key, km, released, made, httpVars, sessVars>>

\* goroutines that lock and unlock "a", and pass handles to each other; a
\* goroutine that was given a handle calls Lock no more
HandOverNext ==
    \E g \in Goroutines :
        \/ kept[g] = NilRec /\ CallLock(g, "a")
        \/ Work(g)
        \/ \E b \in Goroutines : HandOver(g, b)

SpecHandOver == Init /\ [][HandOverNext]_vars

(* ------------------------------------------------------ PanicMiddleware *)
\* the handler returned by PanicMiddleware(next, onPanic) is called:
\* the deferred function is registered and next.ServeHTTP(w, r) begins
ServeHTTP(i, f) ==
    /\ reqs[i].pc = "new"
    /\ reqs' = [reqs EXCEPT ![i].pc = "next", ![i].onPanic = f]
    /\ UNCHANGED <<mmVars, srv, sessVars>>

\* next: the wrapped handler calls w.WriteHeader(http.StatusOK)
next_WriteHeader(i) ==
    /\ reqs[i].pc = "next"
    /\ reqs[i].wrote = NoStatus
    /\ reqs' = [reqs EXCEPT ![i].status = WriteHeader(@, StatusOK), ![i].wrote = StatusOK]
    /\ UNCHANGED <<mmVars, srv, sessVars>>

\* next: the wrapped handler returns
next_return(i) ==
    /\ reqs[i].pc = "next"
    /\ reqs' = [reqs EXCEPT ![i].pc = "recover"]
    /\ UNCHANGED <<mmVars, srv, sessVars>>

\* next: the wrapped handler panics with value v
next_panic(i, v) ==
    /\ reqs[i].pc = "next"
    /\ reqs' = [reqs EXCEPT ![i].pc = "recover", ![i].panic = v]
    /\ UNCHANGED <<mmVars, srv, sessVars>>

\* the deferred function: if e := recover(); e != nil { ... }; recover()
\* stops the panic also when it returns nil
Deferred_recover(i) ==
    /\ reqs[i].pc = "recover"
    /\ \E e \in (IF reqs[i].panic = NoPanic THEN {NilValue} ELSE Recovered(reqs[i].panic)) :
          reqs' = [reqs EXCEPT ![i].e = e,
                               ![i].pc = IF e # NilValue THEN "onPanic" ELSE "returned"]
    /\ UNCHANGED <<mmVars, srv, sessVars>>

\* onPanic(e); the call of a nil function is a run-time panic, raised in
\* the deferred function and passed on to the caller of ServeHTTP
Deferred_onPanic(i) ==
    /\ reqs[i].pc = "onPanic"
    /\ IF reqs[i].onPanic = "nil"
       THEN reqs' = [reqs EXCEPT ![i].pc = "propagated"]
       ELSE reqs' = [reqs EXCEPT ![i].pc = "WriteHeader", ![i].calls = Append(@, reqs[i].e)]
    /\ UNCHANGED <<mmVars, srv, sessVars>>

\* w.WriteHeader(http.StatusInternalServerError)
Deferred_WriteHeader(i) ==
    /\ reqs[i].pc = "WriteHeader"
    /\ reqs' = [reqs EXCEPT ![i].pc = "returned",
                            ![i].status = WriteHeader(@, StatusInternalServerError)]
    /\ UNCHANGED <<mmVars, srv, sessVars>>

PanicNext ==
    \E i \in Requests :
        \/ \E f \in OnPanicFuncs : ServeHTTP(i, f)
        \/ next_WriteHeader(i)
        \/ next_return(i)
        \/ \E v \in PanicValues : next_panic(i, v)
        \/ Deferred_recover(i)
        \/ Deferred_onPanic(i)
        \/ Deferred_WriteHeader(i)

SpecPanic == Init /\ [][PanicNext]_vars

(* ----------------------------------------------------- RunDefaultServer *)
\* select { case c <- struct{}{}: default: } on the channel in state ch:
\* the value is sent when the buffer of c has room, and dropped when not
TrySend(ch) == IF ch.c = 0 THEN [ch EXCEPT !.c = 1, !.sent = @ + 1] ELSE ch

\* RunDefaultServer up to the call of ListenAndServe: c and sig are made,
\* signal.Notify is called, the goroutine that waits for the first shutdown
\* event and the goroutine of HandleShutdown(srv, c, ...) are started
RunDefaultServer(f, ch) ==
    /\ srv.main = "new"
    /\ srv' = [srv EXCEPT !.main = "ListenAndServe", !.onShutdown = f, !.closeChan = ch,
                          !.sigpc = "select", !.hpc = "recv"]
    /\ UNCHANGED <<mmVars, reqs, sessVars>>

\* the process receives SIGINT or SIGTERM: the runtime sends it on sig
\* without blocking, which has room for one signal
Signal ==
    /\ srv.main # "new"
    /\ srv.sig = 0
    /\ srv' = [srv EXCEPT !.sig = 1]
    /\ UNCHANGED <<mmVars, reqs, sessVars>>

\* the caller of RunDefaultServer has a value to send on closeChan
CloseChanSend ==
    /\ srv.main # "new"
    /\ srv.closeChan = "chan"
    /\ ~srv.closeReady
    /\ srv' = [srv EXCEPT !.closeReady = TRUE]
    /\ UNCHANGED <<mmVars, reqs, sessVars>>

\* select { case <-sig: ... }
Select_sig ==
    /\ srv.sigpc = "select"
    /\ srv.sig = 1
    /\ srv' = [srv EXCEPT !.sig = 0, !.sigpc = "send"]
    /\ UNCHANGED <<mmVars, reqs, sessVars>>

\* select { case <-closeChan: ... }; a receive from a nil channel blocks forever
Select_closeChan ==
    /\ srv.sigpc = "select"
    /\ srv.closeChan = "chan"
    /\ srv.closeReady
    /\ srv' = [srv EXCEPT !.closeReady = FALSE, !.sigpc = "send"]
    /\ UNCHANGED <<mmVars, reqs, sessVars>>

\* select { case c <- struct{}{}: default: } of the goroutine
Select_send ==
    /\ srv.sigpc = "send"
    /\ srv' = [TrySend(srv) EXCEPT !.sigpc = "done"]
    /\ UNCHANGED <<mmVars, reqs, sessVars>>

\* HandleShutdown: <-closeChan, where closeChan is c
HandleShutdown_recv ==
    /\ srv.hpc = "recv"
    /\ srv.c = 1
    /\ srv' = [srv EXCEPT !.c = 0, !.hpc = "Shutdown", !.log = Append(@, "recv")]
    /\ UNCHANGED <<mmVars, reqs, sessVars>>

\* HandleShutdown: srv.Shutdown(ctxShutdown) is called and closes the
\* listeners; it then waits for the open connections
HandleShutdown_Shutdown ==
    /\ srv.hpc = "Shutdown"
    /\ srv' = [srv EXCEPT !.server = "closed", !.hpc = "Shutdown_wait",
                          !.log = Append(@, "Shutdown")]
    /\ UNCHANGED <<mmVars, reqs, sessVars>>

\* HandleShutdown: err := srv.Shutdown(ctxShutdown) returns, with nil when
\* the connections are done and with the context's error after the timeout
HandleShutdown_Shutdown_return(e) ==
    /\ srv.hpc = "Shutdown_wait"
    /\ srv' = [srv EXCEPT !.shutdownErr = e, !.hpc = "onShutdown"]
    /\ UNCHANGED <<mmVars, reqs, sessVars>>

\* mutant: HandleShutdown closes the channel without calling onShutdown
HandleShutdown_onShutdown_Skipped ==
    /\ srv.hpc = "onShutdown"
    /\ srv' = [srv EXCEPT !.hpc = "close"]
    /\ UNCHANGED <<mmVars, reqs, sessVars>>

\* HandleShutdown: if onShutdown != nil { onShutdown(err) }
HandleShutdown_onShutdown ==
    /\ srv.hpc = "onShutdown"
    /\ IF srv.onShutdown # "nil"
       THEN srv' = [srv EXCEPT !.calls = Append(@, srv.shutdownErr), !.hpc = "close",
                               !.log = Append(@, "onShutdown")]
       ELSE srv' = [srv EXCEPT !.hpc = "close"]
    /\ UNCHANGED <<mmVars, reqs, sessVars>>

\* mutant: the goroutine of HandleShutdown goes back to wait for the next
\* value on closeChan
HandleShutdown_close_Loop ==
    /\ srv.hpc = "close"
    /\ srv' = [srv EXCEPT !.shutdown = TRUE, !.hpc = "recv", !.log = Append(@, "close")]
    /\ UNCHANGED <<mmVars, reqs, sessVars>>

\* HandleShutdown: close(shutdown)
HandleShutdown_close ==
    /\ srv.hpc = "close"
    /\ srv' = [srv EXCEPT !.shutdown = TRUE, !.hpc = "done", !.log = Append(@, "close")]
    /\ UNCHANGED <<mmVars, reqs, sessVars>>

\* srv.ListenAndServe() listens and serves
ListenAndServe_listen ==
    /\ srv.main = "ListenAndServe"
    /\ srv.server = "new"
    /\ srv' = [srv EXCEPT !.server = "listening"]
    /\ UNCHANGED <<mmVars, reqs, sessVars>>

\* srv.ListenAndServe() returns an error of its own: it cannot listen, or
\* accepting connections fails
ListenAndServe_error ==
    /\ srv.main = "ListenAndServe"
    /\ srv.server \in {"new", "listening"}
    /\ srv' = [srv EXCEPT !.server = "failed", !.err = ListenError, !.main = "if"]
    /\ UNCHANGED <<mmVars, reqs, sessVars>>

\* srv.ListenAndServe() returns http.ErrServerClosed: at once after a
\* Shutdown, and as soon as Shutdown is called
ListenAndServe_closed ==
    /\ srv.main = "ListenAndServe"
    /\ srv.server = "closed"
    /\ srv' = [srv EXCEPT !.err = ErrServerClosed, !.main = "if"]
    /\ UNCHANGED <<mmVars, reqs, sessVars>>

\* if err := srv.ListenAndServe(); err != http.ErrServerClosed { returnError = err
Main_if ==
    /\ srv.main = "if"
    /\ IF srv.err # ErrServerClosed
       THEN srv' = [srv EXCEPT !.returnError = srv.err, !.main = "send"]
       ELSE srv' = [srv EXCEPT !.main = "wait"]
    /\ UNCHANGED <<mmVars, reqs, sessVars>>

\* mutant: RunDefaultServer does not send on c after a failed ListenAndServe
Main_send_Forgot ==
    /\ srv.main = "send"
    /\ srv' = [srv EXCEPT !.main = "wait"]
    /\ UNCHANGED <<mmVars, reqs, sessVars>>

\* select { case c <- struct{}{}: default: } of RunDefaultServer
Main_send ==
    /\ srv.main = "send"
    /\ srv' = [TrySend(srv) EXCEPT !.main = "wait"]
    /\ UNCHANGED <<mmVars, reqs, sessVars>>

\* <-shutdown; return returnError
Main_wait ==
    /\ srv.main = "wait"
    /\ srv.shutdown
    /\ srv' = [srv EXCEPT !.main = "returned"]
    /\ UNCHANGED <<mmVars, reqs, sessVars>>

\* the goroutine that waits for the first shutdown event
SelectStep == Select_sig \/ Select_closeChan \/ Select_send

\* the goroutine of HandleShutdown
HandleShutdownStep ==
    \/ HandleShutdown_recv
    \/ HandleShutdown_Shutdown
    \/ \E e \in {NilError, DeadlineExceeded} : HandleShutdown_Shutdown_return(e)
    \/ HandleShutdown_onShutdown
    \/ HandleShutdown_close

\* the steps of RunDefaultServer that do not depend on the network
MainStep == ListenAndServe_closed \/ Main_if \/ Main_send \/ Main_wait

ServerNext ==
    \/ \E f \in OnShutdownFuncs : \E ch \in CloseChans : RunDefaultServer(f, ch)
    \/ Signal
    \/ CloseChanSend
    \/ ListenAndServe_listen
    \/ ListenAndServe_error
    \/ MainStep
    \/ SelectStep
    \/ HandleShutdownStep

SpecServer == Init /\ [][ServerNext]_vars

\* the goroutines are scheduled, Shutdown returns by its timeout at the
\* latest, and onShutdown returns; no signal, no value on closeChan and no
\* outcome of ListenAndServe is promised
ServerFairness ==
    /\ WF_vars(MainStep)
    /\ WF_vars(SelectStep)
    /\ WF_vars(HandleShutdownStep)

FairSpecServer == SpecServer /\ ServerFairness

(* --------------------------------------------------------------- Session *)
\* v, ok := s.values[key]
MapRead(values, k) ==
    IF k \in DOMAIN values THEN <<values[k], TRUE>> ELSE <<NilInterface, FALSE>>

\* s.values[key] = v
MapWrite(values, k, v) ==
    [x \in DOMAIN values \cup {k} |-> IF x = k THEN v ELSE values[x]]

\* delete(s.values, key)
MapDelete(values, k) ==
    [x \in DOMAIN values \ {k} |-> values[x]]

\* a goroutine calls s.UpdateValue(k, f)
CallUpdateValue(c, k, f) ==
    /\ sess.pc[c] = "idle"
    /\ sess.calls < MaxCalls
    /\ sess' = [sess EXCEPT !.pc[c] = "Update_lock", !.key[c] = k, !.fn[c] = f,
                            !.calls = @ + 1]
    /\ UNCHANGED <<mmVars, httpVars>>

\* a goroutine calls s.GetValue(k)
CallGetValue(c, k) ==
    /\ sess.pc[c] = "idle"
    /\ sess.calls < MaxCalls
    /\ sess' = [sess EXCEPT !.pc[c] = "Get_lock", !.key[c] = k, !.calls = @ + 1]
    /\ UNCHANGED <<mmVars, httpVars>>

\* a goroutine calls s.DeleteValue(k)
CallDeleteValue(c, k) ==
    /\ sess.pc[c] = "idle"
    /\ sess.calls < MaxCalls
    /\ sess' = [sess EXCEPT !.pc[c] = "Delete_lock", !.key[c] = k, !.calls = @ + 1]
    /\ UNCHANGED <<mmVars, httpVars>>

\* UpdateValue: s.mutex.Lock() without waiting for the mutex to be free
UpdateValue_Lock_NoWait(c) ==
    /\ sess.pc[c] = "Update_lock"
    /\ sess' = [sess EXCEPT !.mutex = c, !.pc[c] = "Update_read",
                            !.seen[c] = sess.values]
    /\ UNCHANGED <<mmVars, httpVars>>

\* UpdateValue: s.mutex.Lock()
UpdateValue_Lock(c) ==
    /\ sess.pc[c] = "Update_lock"
    /\ sess.mutex = NoOne
    /\ sess' = [sess EXCEPT !.mutex = c, !.pc[c] = "Update_read",
                            !.seen[c] = sess.values]
    /\ UNCHANGED <<mmVars, httpVars>>

\* UpdateValue: oldValue, ok := s.values[key]
UpdateValue_read(c) ==
    /\ sess.pc[c] = "Update_read"
    /\ sess' = [sess EXCEPT !.oldValue[c] = MapRead(sess.values, sess.key[c])[1],
                            !.ok[c] = MapRead(sess.values, sess.key[c])[2],
                            !.pc[c] = "Update_fn"]
    /\ UNCHANGED <<mmVars, httpVars>>

\* UpdateValue: newValue, ok := updateFn(oldValue, ok)
UpdateValue_updateFn(c) ==
    /\ sess.pc[c] = "Update_fn"
    /\ sess' = [sess EXCEPT
                   !.newValue[c] = updateFn(sess.fn[c], sess.oldValue[c], sess.ok[c])[1],
                   !.ok[c] = updateFn(sess.fn[c], sess.oldValue[c], sess.ok[c])[2],
                   !.pc[c] = "Update_if"]
    /\ UNCHANGED <<mmVars, httpVars>>

\* UpdateValue: if !ok { return false }
UpdateValue_if(c) ==
    /\ sess.pc[c] = "Update_if"
    /\ IF ~sess.ok[c]
       THEN sess' = [sess EXCEPT !.ret[c] = <<FALSE>>, !.pc[c] = "Update_unlock"]
       ELSE sess' = [sess EXCEPT !.pc[c] = "Update_store"]
    /\ UNCHANGED <<mmVars, httpVars>>

\* UpdateValue: if newValue != nil { s.values[key] = newValue }; return true
\* incs counts the increments stored under the key since it was last deleted
UpdateValue_store(c) ==
    /\ sess.pc[c] = "Update_store"
    /\ sess' = [sess EXCEPT
                   !.values = IF sess.newValue[c] # NilInterface
                              THEN MapWrite(@, sess.key[c], sess.newValue[c])
                              ELSE @,
                   !.incs[sess.key[c]] = IF sess.fn[c] = "incr" THEN @ + 1 ELSE @,
                   !.ret[c] = <<TRUE>>,
                   !.pc[c] = "Update_unlock"]
    /\ UNCHANGED <<mmVars, httpVars>>

\* the deferred s.mutex.Unlock() of a method runs and the call returns
mutex_Unlock(c) ==
    /\ sess' = [sess EXCEPT !.mutex = NoOne, !.pc[c] = "idle",
                            !.oldValue[c] = NilInterface, !.ok[c] = FALSE,
                            !.newValue[c] = NilInterface, !.ret[c] = <<>>,
                            !.seen[c] = <<>>]
    /\ UNCHANGED <<mmVars, httpVars>>

\* UpdateValue: defer s.mutex.Unlock()
UpdateValue_Unlock(c) ==
    /\ sess.pc[c] = "Update_unlock"
    /\ mutex_Unlock(c)

\* GetValue: s.mutex.Lock()
GetValue_Lock(c) ==
    /\ sess.pc[c] = "Get_lock"
    /\ sess.mutex = NoOne
    /\ sess' = [sess EXCEPT !.mutex = c, !.pc[c] = "Get_read"]
    /\ UNCHANGED <<mmVars, httpVars>>

\* GetValue: v, ok := s.values[key]; return v, ok
GetValue_read(c) ==
    /\ sess.pc[c] = "Get_read"
    /\ sess' = [sess EXCEPT !.ret[c] = MapRead(sess.values, sess.key[c]),
                            !.pc[c] = "Get_unlock"]
    /\ UNCHANGED <<mmVars, httpVars>>

\* GetValue: defer s.mutex.Unlock()
GetValue_Unlock(c) ==
    /\ sess.pc[c] = "Get_unlock"
    /\ mutex_Unlock(c)

\* DeleteValue: s.mutex.Lock()
DeleteValue_Lock(c) ==
    /\ sess.pc[c] = "Delete_lock"
    /\ sess.mutex = NoOne
    /\ sess' = [sess EXCEPT !.mutex = c, !.pc[c] = "Delete_delete"]
    /\ UNCHANGED <<mmVars, httpVars>>

\* DeleteValue: delete(s.values, key); return true
DeleteValue_delete(c) ==
    /\ sess.pc[c] = "Delete_delete"
    /\ sess' = [sess EXCEPT !.values = MapDelete(@, sess.key[c]),
                            !.incs[sess.key[c]] = 0,
                            !.ret[c] = <<TRUE>>,
                            !.pc[c] = "Delete_unlock"]
    /\ UNCHANGED <<mmVars, httpVars>>

\* DeleteValue: defer s.mutex.Unlock()
DeleteValue_Unlock(c) ==
    /\ sess.pc[c] = "Delete_unlock"
    /\ mutex_Unlock(c)

SessionNext ==
    \E c \in Callers :
        \/ \E k \in SessionKeys : \E f \in UpdateFns : CallUpdateValue(c, k, f)
        \/ \E k \in SessionKeys : CallGetValue(c, k)
        \/ \E k \in SessionKeys : CallDeleteValue(c, k)
        \/ UpdateValue_Lock(c)
        \/ UpdateValue_read(c)
        \/ UpdateValue_updateFn(c)
        \/ UpdateValue_if(c)
        \/ UpdateValue_store(c)
        \/ UpdateValue_Unlock(c)
        \/ GetValue_Lock(c)
        \/ GetValue_read(c)
        \/ GetValue_Unlock(c)
        \/ DeleteValue_Lock(c)
        \/ DeleteValue_delete(c)
        \/ DeleteValue_Unlock(c)

SpecSession == Init /\ [][SessionNext]_vars

(* ============================================================ properties *)
\* g is inside its critical section for k: Lock(k) has returned to g and g
\* has not yet invoked Unlock() on the handle
InCS(g, k) ==
    /\ pc[g] = "idle"
    /\ \E i \in 1..Len(held[g]) : recs[held[g][i]].key = k

\* g is blocked in km.inner.Lock() of Lock(k)
Awaits(g, k) == pc[g] = "Lock_inner" /\ key[g] = k /\ recs[km[g]].inner

\* C1: mutual exclusion per key: never are two goroutines both inside their
\* critical section for the same key
MutualExclusion ==
    \A k \in Keys : \A g, h \in Goroutines : InCS(g, k) /\ InCS(h, k) => g = h

\* C1 witness: one goroutine is inside the critical section for "a" while
\* two others are blocked in Lock("a") on the same record
MutualExclusionContended ==
    \E g \in Goroutines :
        /\ InCS(g, "a")
        /\ \E h1, h2 \in Goroutines \ {g} :
              /\ h1 # h2
              /\ Awaits(h1, "a") /\ km[h1] = Top(held[g])
              /\ Awaits(h2, "a") /\ km[h2] = Top(held[g])

\* the steps of a Lock call
LockStep(g) ==
    \/ Lock_lock(g)
    \/ Lock_lookup(g)
    \/ Lock_incr(g)
    \/ Lock_unlock(g)
    \/ Lock_inner(g)

LockPcs == {"Lock_lock", "Lock_lookup", "Lock_incr", "Lock_unlock", "Lock_inner"}

\* C2: independence across keys: a Lock(k2) call that began with the guard
\* free and no goroutine holding or awaiting k2, and since then ran alone,
\* can take its next step at every statement up to its return, whatever the
\* other goroutines hold or wait for
IndependenceAcrossKeys ==
    \A g \in Goroutines :
        solo = g =>
            /\ pc[g] \in LockPcs \cup {"idle"}
            /\ pc[g] \in LockPcs => ENABLED LockStep(g)
            /\ pc[g] = "idle" => InCS(g, recs[Top(held[g])].key)

\* C2 witness: Lock("a") has run alone to its return while another
\* goroutine holds "" and a third one is blocked in Lock("")
IndependentLockReturned ==
    \E g \in Goroutines :
        /\ solo = g
        /\ InCS(g, "a")
        /\ \E h1, h2 \in Goroutines \ {g} : InCS(h1, "") /\ Awaits(h2, "")

\* no Lock call is pending or unmatched and no goroutine is inside Lock or Unlock
Quiescent == \A g \in Goroutines : pc[g] = "idle" /\ held[g] = <<>>

\* C3: cleanup at quiescence: when every Lock call has been matched by a
\* completed Unlock() and no goroutine is inside Lock or Unlock, keyToLock
\* is empty
CleanupAtQuiescence == Quiescent => DOMAIN keyToLock = {}

\* C3 witness: Lock/Unlock pairs have completed and no goroutine is inside
\* Lock or Unlock
QuiescentAfterUnlock == released /\ Quiescent /\ lock = NoOne

\* C5: presence/count invariant: while the top-level guard is free, the
\* records stored in keyToLock are exactly the records whose count is not 0,
\* each under its own key
PresenceCount ==
    lock = NoOne =>
        /\ \A k \in DOMAIN keyToLock :
              recs[keyToLock[k]].count # 0 /\ recs[keyToLock[k]].key = k
        /\ \A r \in RecIds :
              recs[r].count # 0 => \E k \in DOMAIN keyToLock : keyToLock[k] = r

\* C5 witness: the guard is free, a goroutine is between the bookkeeping and
\* the inner unlock of an Unlock() that brought the count of its record to 0
\* and removed it, and the record of the other key, with a waiter, is in the map
RemovedAtZero ==
    /\ lock = NoOne
    /\ \E g \in Goroutines :
          /\ pc[g] = "Unlock_inner"
          /\ recs[Top(held[g])].count = 0
          /\ Top(held[g]) \notin Range(keyToLock)
    /\ \E k \in DOMAIN keyToLock : recs[keyToLock[k]].count = 2

\* the count of the record stored under k, 0 when there is none
CountOf(k) == IF k \in DOMAIN keyToLock THEN recs[keyToLock[k]].count ELSE 0

\* a Lock(k) call of g has returned or is blocked acquiring the inner lock,
\* and the Unlock() call that matches it has not returned
Outstanding(g, k) ==
    \/ pc[g] = "Lock_inner" /\ key[g] = k
    \/ \E i \in 1..Len(held[g]) : recs[held[g][i]].key = k

\* C6 as stated: with the guard free, the count of the record for k is the
\* number of Lock(k) calls that have returned or are blocked on the inner
\* lock minus the number of Unlock() calls for k that have returned
RefCountMinusCompletedUnlocks ==
    lock = NoOne =>
        \A k \in Keys : CountOf(k) = Cardinality({g \in Goroutines : Outstanding(g, k)})

\* C6 amended: with the guard free, the count of the record for k is the
\* number of Lock(k) calls that have returned or are blocked on the inner
\* lock minus the number of Unlock() calls for k whose guarded bookkeeping
\* (mm.unlock) has returned, the inner lock released or not
RefCountAccounting ==
    lock = NoOne =>
        \A k \in Keys : CountOf(k) = Cardinality({g \in Goroutines : Counted(g, k)})

\* C6 witness: the guard is free, the record for "a" counts its holder and
\* a blocked Lock("a") call, and a third goroutine has decremented it in an
\* Unlock() that has not yet released the inner lock of its own record
RefCountHolderAndWaiter ==
    /\ lock = NoOne
    /\ CountOf("a") = 2
    /\ \E g, h \in Goroutines : InCS(g, "a") /\ Awaits(h, "a")
    /\ \E g \in Goroutines : pc[g] = "Unlock_inner"

GuardedPcs ==
    {"Lock_lookup", "Lock_incr", "Lock_unlock",
     "unlock_lookup", "unlock_decr", "unlock_delete", "unlock_unlock"}

\* C7: the goroutine that holds the top-level guard is inside the
\* bookkeeping of Lock or unlock, not at km.inner.Lock(), and its next step
\* waits for nothing
GuardNeverHeldWhileWaiting ==
    \A g \in Goroutines :
        lock = g => pc[g] \in GuardedPcs /\ ENABLED Bookkeeping(g)

\* C7 witness: the guard holder is about to release the guard in Lock(k)
\* and will then block on the inner lock, which another goroutine holds
GuardHolderAboutToWait ==
    \E g \in Goroutines :
        /\ lock = g
        /\ pc[g] = "Lock_unlock"
        /\ recs[km[g]].inner
        /\ \E h \in Goroutines \ {g} : InCS(h, key[g])

\* g holds the inner lock of the record held[g][i]: from the return of
\* km.inner.Lock() in Lock to km.inner.Unlock() in Unlock().  The guarded
\* bookkeeping of the Unlock() call g is in has been done for that handle:
Unlocked(g, i) == i = Len(held[g]) /\ pc[g] \in {"unlock_unlock", "Unlock_inner"}

\* C8 as stated: for every key at most one goroutine holds the inner lock
\* of a record created for that key
InnerExclusivePerKey ==
    \A g \in Goroutines : \A i \in 1..Len(held[g]) :
        \A h \in Goroutines \ {g} : \A j \in 1..Len(held[h]) :
            recs[held[h][j]].key # recs[held[g][i]].key

\* C8 amended: the inner lock of a record has at most one holder, and for
\* every key at most one goroutine holds the inner lock of a record created
\* for that key without having done the guarded bookkeeping of Unlock();
\* a goroutine that removed the record still holds its inner lock, up to the
\* end of Unlock(), while a second Lock(k) holds that of a fresh record
InnerExclusivePerRecord ==
    \A g \in Goroutines : \A i \in 1..Len(held[g]) :
        /\ recs[held[g][i]].inner
        /\ \A h \in Goroutines \ {g} : \A j \in 1..Len(held[h]) :
              /\ held[h][j] # held[g][i]
              /\ recs[held[h][j]].key = recs[held[g][i]].key
                    => Unlocked(g, i) \/ Unlocked(h, j)

\* C8 witness: a goroutine holds the inner lock of the record for "a" that
\* it has removed, another one holds the inner lock of the fresh record for
\* "a", and a third one is blocked on the fresh record
InnerHeldOnRemovedAndFresh ==
    \E g, h, w \in Goroutines :
        /\ pc[g] = "Unlock_inner"
        /\ recs[Top(held[g])].key = "a"
        /\ InCS(h, "a")
        /\ Top(held[h]) # Top(held[g])
        /\ Awaits(w, "a") /\ km[w] = Top(held[h])

\* the steps of Unlock() after mm.lock.Lock()
UnlockStep(g) ==
    \/ unlock_lookup(g)
    \/ unlock_decr(g)
    \/ unlock_delete(g)
    \/ unlock_unlock(g)
    \/ Unlock_inner(g)

UnlockPcs == {"unlock_lookup", "unlock_decr", "unlock_delete", "unlock_unlock", "Unlock_inner"}

\* C10: an Unlock() call that has acquired the top-level guard can take its
\* next step at every statement up to its return, and one that has not is
\* delayed only by a goroutine inside the guarded bookkeeping
UnlockNeverWaits ==
    \A g \in Goroutines :
        /\ pc[g] \in UnlockPcs => ENABLED UnlockStep(g)
        /\ pc[g] = "unlock_lock" =>
              \/ ENABLED unlock_lock(g)
              \/ lock \in Goroutines \ {g} /\ pc[lock] \in GuardedPcs

\* C10 witness: an Unlock() call is at km.inner.Unlock() while another
\* goroutine is blocked on that inner lock and a third one holds the
\* other key
UnlockWithWaiter ==
    \E g, h, w \in Goroutines :
        /\ pc[g] = "Unlock_inner"
        /\ Awaits(h, recs[Top(held[g])].key) /\ km[h] = Top(held[g])
        /\ w # g /\ held[w] # <<>>

\* g holds a key: Lock has returned to g
Holding(g) == pc[g] = "idle" /\ held[g] # <<>>

\* no deadlock: unless every goroutine is outside Lock and Unlock and holds
\* nothing, some goroutine can take a step of Lock or Unlock
NoDeadlock == Quiescent \/ \E g \in Goroutines : ENABLED Work(g)

\* C4: progress without nesting: with goroutines that hold at most one key
\* at a time and holders that call Unlock(), no deadlock state is reached
\* and, under fair scheduling of the goroutines and of the mutexes, every
\* Lock call returns
ProgressWithoutNesting ==
    /\ []NoDeadlock
    /\ \A g \in Goroutines : (pc[g] \in LockPcs) ~> Holding(g)

\* C4 witness: Lock("a") has returned to a goroutine right after another
\* one released "a": the releasing Unlock() has removed the record and has
\* not yet returned, and a third goroutine is blocked in Lock("a")
LockedRightAfterRelease ==
    \E g, h, w \in Goroutines :
        /\ pc[g] = "Unlock_inner"
        /\ recs[Top(held[g])].key = "a"
        /\ Top(held[g]) \notin Range(keyToLock)
        /\ h # g /\ InCS(h, "a")
        /\ Awaits(w, "a")
        /\ released

\* g holds the record h waits for and h holds the record g waits for
DeadlockedPair(g, h) ==
    /\ g # h
    /\ pc[g] = "Lock_inner" /\ Len(held[g]) = 1
    /\ pc[h] = "Lock_inner" /\ Len(held[h]) = 1
    /\ km[g] = held[h][1]
    /\ km[h] = held[g][1]

\* C9: nested-lock deadlock: two goroutines that each wait in Lock for the
\* key the other holds stay so in every later state; nothing in the registry
\* detects or breaks the cycle
NestedDeadlockIsForever ==
    [][\A g, h \in Goroutines : DeadlockedPair(g, h) => DeadlockedPair(g, h)']_vars

\* C9 witness: a goroutine that holds "" is blocked in Lock("a") and the
\* goroutine that holds "a" is blocked in Lock("")
NestedDeadlockReached ==
    \E g, h \in Goroutines :
        /\ DeadlockedPair(g, h)
        /\ recs[held[g][1]].key = "" /\ key[g] = "a"
        /\ recs[held[h][1]].key = "a" /\ key[h] = ""
        /\ ~ENABLED Work(g) /\ ~ENABLED Work(h)

\* the second Unlock() call of g on its handle is in progress or over
SecondCall(g) == kept[g] = Again

InUse(g, k) ==
    \/ pc[g] \in LockPcs /\ key[g] = k
    \/ \E i \in 1..Len(held[g]) : recs[held[g][i]].key = k

\* C12 as stated: the keys in keyToLock are keys that some goroutine holds
\* or waits for, and the size of the map is at most the number of
\* goroutines between the start of Lock and the end of Unlock
MemoryBoundByGoroutines ==
    /\ \A k \in DOMAIN keyToLock : \E g \in Goroutines : InUse(g, k)
    /\ Cardinality(DOMAIN keyToLock)
          <= Cardinality({g \in Goroutines : \E k \in Keys : InUse(g, k)})

\* C12 amended: the keys in keyToLock are keys that some goroutine holds or
\* waits for, and the size of the map is at most the number of Lock calls
\* that have started and whose Unlock() has not ended; a goroutine that nests
\* Lock calls accounts for one key per call
MemoryBoundByCalls ==
    /\ \A k \in DOMAIN keyToLock : \E g \in Goroutines : InUse(g, k)
    /\ Cardinality(DOMAIN keyToLock)
          <= Cardinality({c \in Goroutines \X Keys : InUse(c[1], c[2])})

\* C12 witness: Lock/Unlock pairs are over, and a single goroutine that
\* nested its Lock calls keeps two keys in the map
MemoryTwoKeysOneGoroutine ==
    /\ released
    /\ Cardinality(DOMAIN keyToLock) = 2
    /\ Cardinality({g \in Goroutines : \E k \in Keys : InUse(g, k)}) = 1

\* the key of the Lock or Unlock() call in which g takes a step
ActingKey(g) == IF key[g] # NoKey THEN key[g] ELSE key'[g]

\* C13: frame: a step of Lock(k), or of Unlock() on a handle for k, leaves
\* every other key as it was: present in keyToLock or not, bound to the same
\* record, and every record of another key keeps its count and the state of
\* its inner lock
FrameOtherKeys ==
    [][\A g \in Goroutines :
          pc'[g] # pc[g] =>
            /\ \A k \in Keys \ {ActingKey(g)} :
                  /\ k \in DOMAIN keyToLock' <=> k \in DOMAIN keyToLock
                  /\ k \in DOMAIN keyToLock => keyToLock'[k] = keyToLock[k]
            /\ \A r \in RecIds :
                  recs[r].key \notin {ActingKey(g), NoKey} => recs'[r] = recs[r]]_vars

\* C13 witness: an Unlock() on a handle for "a" has done its bookkeeping and
\* is about to release the inner lock, while another goroutine holds "" and
\* a third one waits for it
FrameUnlockBesideHolder ==
    \E g, h, w \in Goroutines :
        /\ pc[g] = "Unlock_inner" /\ key[g] = "a"
        /\ InCS(h, "")
        /\ Awaits(w, "")
        /\ CountOf("") = 2

\* C14: the empty key is a key like any other: at most one goroutine is
\* inside the critical section for "", with the guard free the record for ""
\* is in the map exactly while some goroutine is counted on it and its count
\* is the number of these goroutines, and a goroutine blocked in Lock(k) is
\* blocked by a holder of the record for k itself, so that holders of "" and
\* holders of other keys never block each other
EmptyKeyLikeAnyOther ==
    /\ \A g, h \in Goroutines : InCS(g, "") /\ InCS(h, "") => g = h
    /\ lock = NoOne =>
          /\ "" \in DOMAIN keyToLock <=> \E g \in Goroutines : Counted(g, "")
          /\ CountOf("") = Cardinality({g \in Goroutines : Counted(g, "")})
    /\ \A g \in Goroutines :
          pc[g] = "Lock_inner" /\ ~ENABLED Lock_inner(g) =>
              /\ recs[km[g]].key = key[g]
              /\ \E h \in Goroutines \ {g} : km[g] \in Range(held[h])

\* C14 witness: after Lock/Unlock pairs, one goroutine is inside the
\* critical section for "", a second one is blocked in Lock(""), and a third
\* one is inside the critical section for "a"
EmptyKeyContendedBesideOther ==
    \E g, w, h \in Goroutines :
        /\ released
        /\ InCS(g, "")
        /\ Awaits(w, "")
        /\ InCS(h, "a")

\* ServeHTTP of request i is over: it returned, or a panic left it
Served(i) == reqs[i].pc \in {"returned", "propagated"}

\* C15 as stated: with an onPanic function, a request whose handler
\* panicked ends with onPanic called exactly once, with the panic value,
\* with status 500 and without the panic leaving ServeHTTP; a request whose
\* handler did not panic ends with onPanic never called and the status the
\* handler wrote
PanicCaught ==
    \A i \in Requests :
        Served(i) /\ reqs[i].onPanic = "func" =>
            IF reqs[i].panic # NoPanic
            THEN /\ reqs[i].calls = <<reqs[i].panic>>
                 /\ reqs[i].status = StatusInternalServerError
                 /\ reqs[i].pc = "returned"
            ELSE /\ reqs[i].calls = <<>>
                 /\ reqs[i].status = reqs[i].wrote
                 /\ reqs[i].pc = "returned"

\* C15, the failing case: the handler wrote its header and then panicked;
\* onPanic was called and ServeHTTP returned, and the status of the response
\* is the handler's 200
PanicAfterHeaderNot500 ==
    \E i \in Requests :
        /\ reqs[i].pc = "returned"
        /\ reqs[i].onPanic = "func"
        /\ reqs[i].panic = "xyz"
        /\ reqs[i].calls = <<"xyz">>
        /\ reqs[i].status = StatusOK

\* the order of the steps of HandleShutdown
ShutdownOrder ==
    IF srv.onShutdown = "nil" THEN <<"recv", "Shutdown", "close">>
    ELSE <<"recv", "Shutdown", "onShutdown", "close">>

\* C16: HandleShutdown receives a value on closeChan, then calls
\* srv.Shutdown, then calls onShutdown, if there is one, with the error
\* Shutdown returned, and then closes the channel it returned: the channel
\* is closed only after a value was sent on closeChan and after all of
\* this, and who has read from it finds that onShutdown has run
HandleShutdownOrdering ==
    /\ Len(srv.log) <= Len(ShutdownOrder)
    /\ \A n \in 1..Len(srv.log) : srv.log[n] = ShutdownOrder[n]
    /\ srv.log # <<>> => srv.sent >= 1
    /\ srv.calls = IF srv.onShutdown # "nil" /\ srv.hpc \in {"close", "done"}
                   THEN <<srv.shutdownErr>> ELSE <<>>
    /\ srv.shutdown => srv.log = ShutdownOrder
    /\ srv.main = "returned" => srv.shutdown /\ (srv.onShutdown # "nil" => Len(srv.calls) = 1)

\* C16 witness: RunDefaultServer has read from the closed channel after a
\* signal, and onShutdown was called with the error of a Shutdown that
\* timed out
ShutdownObservedAfterOnShutdown ==
    /\ srv.main = "returned"
    /\ srv.sigpc = "done"
    /\ srv.calls = <<DeadlineExceeded>>

\* C17: RunDefaultServer returns only after the shutdown channel was closed
\* and OnShutdownFunc, if there is one, was called; it returns nil when
\* ListenAndServe returned http.ErrServerClosed, that is after a shutdown by
\* a signal or by a value on closeChan, and the error of ListenAndServe
\* otherwise; and it does return, both after a failed ListenAndServe, with
\* no signal and no value on closeChan needed, and after the first signal
\* or value on closeChan
RunDefaultServerTerminates ==
    /\ [](srv.main = "returned" =>
            /\ srv.shutdown
            /\ srv.onShutdown # "nil" => Len(srv.calls) = 1
            /\ srv.returnError = IF srv.err = ErrServerClosed THEN NilError ELSE srv.err
            /\ srv.err \in {ErrServerClosed, ListenError})
    /\ (srv.err = ListenError ~> srv.main = "returned")
    /\ (srv.sigpc = "send" ~> srv.main = "returned" )

\* C17 witness: ListenAndServe failed, no signal and no value on closeChan
\* ever arrived, and RunDefaultServer has returned the error after
\* OnShutdownFunc was called
ReturnedListenError ==
    /\ srv.main = "returned"
    /\ srv.returnError = ListenError
    /\ srv.sigpc = "select" /\ srv.sig = 0 /\ ~srv.closeReady
    /\ Len(srv.calls) = 1

\* h is counted in the count of record r: its Lock call has incremented it
\* and its Unlock() has not yet decremented it
CountedOn(h, r) ==
    \/ pc[h] \in {"Lock_unlock", "Lock_inner"} /\ km[h] = r
    \/ \E i \in 1..Len(held[h]) :
          /\ held[h][i] = r
          /\ ~(i = Len(held[h]) /\ pc[h] \in {"unlock_delete", "unlock_unlock", "Unlock_inner"})

\* the statements of mm.unlock, which run under the top-level guard
BookkeepingPcs == {"unlock_lookup", "unlock_decr", "unlock_delete", "unlock_unlock"}

\* C18: the order of the steps of Unlock(): while the call is at its
\* bookkeeping it holds the guard and the inner lock of its handle stays
\* locked; when it is about to release the inner lock the guard is no
\* longer its own, the count of the record no longer includes the call and
\* a record whose count is 0 is out of the map; and the step that releases
\* the inner lock changes neither the guard nor the map nor any count
UnlockStepOrder ==
    [][\A g \in Goroutines :
          /\ pc[g] \in BookkeepingPcs =>
                lock = g /\ recs[Top(held[g])].inner /\ recs'[Top(held[g])].inner
          /\ pc[g] = "Unlock_inner" =>
                LET r == Top(held[g])
                IN  /\ lock # g
                    /\ recs[r].count = Cardinality({h \in Goroutines : CountedOn(h, r)})
                    /\ recs[r].count = 0 => r \notin Range(keyToLock)
                    /\ pc'[g] # pc[g] =>
                          /\ ~recs'[r].inner
                          /\ lock' = lock /\ keyToLock' = keyToLock
                          /\ \A q \in RecIds \ {r} : recs'[q] = recs[q]]_vars

\* C18 witness: an Unlock() has removed its record and released the guard
\* and is about to release the inner lock, while another goroutine has
\* taken the guard for its own bookkeeping on the same key
UnlockBookkeepingDoneGuardTaken ==
    \E g, h \in Goroutines :
        /\ pc[g] = "Unlock_inner"
        /\ Top(held[g]) \notin Range(keyToLock)
        /\ lock = h /\ key[h] = key[g] /\ pc[h] = "Lock_unlock"

\* C19: Lock racing with Unlock on one key: the lookup of Lock(k) takes
\* the record that is in the map under k and otherwise inserts a fresh
\* record, unlocked, with no holder and not the removed one; an unlock
\* whose record counts another goroutine leaves the record in the map; and
\* a goroutine at km.inner.Lock() is at the record that is in the map under
\* its key, and waits only while another goroutine holds that very record
LockRacingUnlock ==
    [][\A g \in Goroutines :
          /\ pc[g] = "Lock_lookup" /\ pc'[g] # pc[g] =>
                IF key[g] \in DOMAIN keyToLock
                THEN km'[g] = keyToLock[key[g]] /\ keyToLock' = keyToLock
                ELSE /\ keyToLock'[key[g]] = km'[g]
                     /\ recs'[km'[g]] = [key |-> key[g], count |-> 0, inner |-> FALSE]
                     /\ \A h \in Goroutines : km'[g] \notin Range(held[h])
          /\ pc[g] = "unlock_delete" /\ pc'[g] # pc[g]
               /\ (\E h \in Goroutines \ {g} : CountedOn(h, km[g])) =>
                     keyToLock' = keyToLock /\ keyToLock[key[g]] = km[g]
          /\ pc[g] = "Lock_inner" =>
                /\ key[g] \in DOMAIN keyToLock /\ keyToLock[key[g]] = km[g]
                /\ recs[km[g]].count >= 1
                /\ ENABLED Lock_inner(g) \/ \E h \in Goroutines \ {g} : km[g] \in Range(held[h])
                /\ pc'[g] # pc[g] => Top(held'[g]) = keyToLock[key[g]]]_vars

\* C19 witness: an Unlock() has removed the record for a key and not yet
\* released its inner lock, and a Lock on the same key has inserted a fresh
\* record and can acquire its inner lock at once
FreshRecordNotBlockedByRemoved ==
    \E g, u \in Goroutines :
        /\ pc[u] = "Unlock_inner" /\ recs[Top(held[u])].inner
        /\ pc[g] = "Lock_inner" /\ key[g] = key[u]
        /\ km[g] # Top(held[u])
        /\ ENABLED Lock_inner(g)

\* C20: record identity: with one Unlock() per Lock, the record of every
\* goroutine that has incremented a count and not yet decremented it is the
\* record stored in keyToLock under its key, and the record unlock finds by
\* key and decrements is the record of the caller's handle
RecordIdentity ==
    /\ \A g \in Goroutines : \A r \in RecIds :
          CountedOn(g, r) =>
              recs[r].key \in DOMAIN keyToLock /\ keyToLock[recs[r].key] = r
    /\ \A g \in Goroutines :
          pc[g] = "unlock_decr" => km[g] = Top(held[g]) /\ recs[km[g]].count >= 1

\* C20 witness: after the record for "a" was removed and created again, an
\* unlock has looked it up by key and is about to decrement it, while
\* another goroutine waits on the same record
UnlockFoundOwnRecord ==
    \E g, h \in Goroutines :
        /\ released
        /\ pc[g] = "unlock_decr" /\ key[g] = "a"
        /\ km[g] = Top(held[g])
        /\ Awaits(h, "a") /\ km[h] = km[g]

\* C21: with one Unlock() per Lock, unlock always finds the record for its
\* key, so the branch panic("no lock for the given key") is never taken,
\* and the count of no record is ever negative
AssertionsHold ==
    /\ \A g \in Goroutines :
          /\ pc[g] # "panic"
          /\ pc[g] = "unlock_lookup" =>
                key[g] \in DOMAIN keyToLock /\ keyToLock[key[g]] = Top(held[g])
    /\ \A r \in RecIds : recs[r].count >= 0

\* C21 witness: after earlier Lock/Unlock pairs, the last user of a record
\* is at the lookup of unlock, the count of the record being 1
LastUnlockAtLookup ==
    \E g \in Goroutines :
        /\ released
        /\ pc[g] = "unlock_lookup"
        /\ CountOf(key[g]) = 1

\* the state of the record of key k: not in keyToLock, or in it with its
\* inner lock free or held
KeyState(k) ==
    IF k \notin DOMAIN keyToLock THEN "ABSENT"
    ELSE IF recs[keyToLock[k]].inner THEN "PRESENT/LOCKED"
    ELSE "PRESENT/UNLOCKED"

\* the steps of the life cycle of a record
LifeCycle ==
    {<<"ABSENT", "PRESENT/UNLOCKED">>, <<"PRESENT/UNLOCKED", "PRESENT/LOCKED">>,
     <<"PRESENT/LOCKED", "PRESENT/UNLOCKED">>, <<"PRESENT/LOCKED", "ABSENT">>}

\* C22: the state of the record of a key changes only along the life
\* cycle: created unlocked, with count 1 or more whenever the guard is
\* free; locked by a Lock that returns; unlocked by an Unlock() that leaves
\* the same record, with count above 0, in the map; removed only by an
\* unlock that brought its count to 0; and absent whenever no goroutine is
\* between the start of Lock and the end of Unlock() on the key
RecordLifeCycle ==
    [][\A k \in Keys :
          /\ KeyState(k)' # KeyState(k) => <<KeyState(k), KeyState(k)'>> \in LifeCycle
          /\ k \in DOMAIN keyToLock /\ k \in DOMAIN keyToLock' => keyToLock'[k] = keyToLock[k]
          /\ k \in DOMAIN keyToLock /\ lock = NoOne => recs[keyToLock[k]].count >= 1
          /\ KeyState(k) = "PRESENT/LOCKED" /\ KeyState(k)' = "PRESENT/UNLOCKED" =>
                recs'[keyToLock'[k]].count >= 1
          /\ k \in DOMAIN keyToLock /\ k \notin DOMAIN keyToLock' =>
                \E g \in Goroutines :
                    /\ pc[g] = "unlock_delete" /\ pc'[g] = "unlock_unlock"
                    /\ key[g] = k /\ recs[keyToLock[k]].count = 0
          /\ (\A g \in Goroutines : ~InUse(g, k)) => KeyState(k) = "ABSENT"]_vars

\* C22 witness: an Unlock() has left the record for "a" in the map, unlocked
\* and with count 2, to the two goroutines that wait for it
RecordHandedToWaiters ==
    \E g, h, u \in Goroutines :
        /\ g # h
        /\ released
        /\ KeyState("a") = "PRESENT/UNLOCKED" /\ CountOf("a") = 2
        /\ pc[g] = "Lock_inner" /\ pc[h] = "Lock_inner" /\ key[g] = "a" /\ key[h] = "a"
        /\ pc[u] = "idle" /\ held[u] = <<>>

\* the statements that read or write mm.keyToLock or the count of a record
AccessPcs == {"Lock_lookup", "Lock_incr", "unlock_lookup", "unlock_decr", "unlock_delete"}

\* C23: a goroutine at a statement that reads or writes keyToLock or a
\* count holds the top-level guard, so at most one goroutine is at such a
\* statement, and every step that changes the map or a count is taken by
\* the goroutine that holds the guard
GuardedMapAccess ==
    [][/\ \A g \in Goroutines : pc[g] \in AccessPcs => lock = g
       /\ Cardinality({g \in Goroutines : pc[g] \in AccessPcs}) <= 1
       /\ (keyToLock' # keyToLock \/ \E r \in RecIds : recs'[r].count # recs[r].count) =>
              \E g \in Goroutines : lock = g /\ pc[g] \in AccessPcs /\ pc'[g] # pc[g]]_vars

\* C23 witness: one goroutine is about to decrement a count under the
\* guard while a Lock and an Unlock() of two other goroutines wait for the
\* guard
AccessWhileOthersWaitForGuard ==
    \E g, h, u \in Goroutines :
        /\ pc[g] = "unlock_decr" /\ lock = g
        /\ pc[h] = "Lock_lock"
        /\ pc[u] = "unlock_lock"

OwnershipNotTiedToGoroutine ==
    /\ \A k \in Keys : \A g, h \in Goroutines : InCS(g, k) /\ InCS(h, k) => g = h
    /\ lock = NoOne =>
          /\ \A k \in DOMAIN keyToLock :
                /\ recs[keyToLock[k]].key = k
                /\ recs[keyToLock[k]].count >= 1
                /\ recs[keyToLock[k]].count =
                      Cardinality({g \in Goroutines : CountedOn(g, keyToLock[k])})
          /\ \A r \in RecIds : recs[r].count # 0 => r \in Range(keyToLock)
    /\ \A g \in Goroutines : pc[g] \notin {"panic", "fatal"}
    /\ Quiescent => DOMAIN keyToLock = {}

\* C25 witness: a goroutine that called Lock no more after it was given a
\* handle has unlocked such a handle, the record is removed, and a goroutine
\* that locked the key afterwards is inside its critical section
HandedHandleUnlocked ==
    \E b, g \in Goroutines :
        /\ kept[b] = Handed
        /\ pc[b] = "Unlock_inner" /\ key[b] = "a"
        /\ Top(held[b]) \notin Range(keyToLock)
        /\ pc[g] = "Lock_inner" /\ key[g] = "a" /\ ENABLED Lock_inner(g)

\* g is at km.inner.Lock() of a Lock call for the key it already holds
Reentered(g) ==
    /\ pc[g] = "Lock_inner"
    /\ Len(held[g]) = 1
    /\ recs[Top(held[g])].key = key[g]

PanicCaughtWithoutOnPanicFunc ==
    \A i \in Requests :
        Served(i) /\ reqs[i].onPanic = "nil"
          /\ reqs[i].panic \notin {NoPanic, NilValue} /\ reqs[i].wrote = NoStatus =>
            reqs[i].pc = "returned" /\ reqs[i].status = StatusInternalServerError

\* C27, the failing case: with OnPanicFunc unset the handler panicked with
\* "xyz", the call of the nil onPanic panicked in the deferred function, no
\* status was written and the panic left ServeHTTP
PanicLeftMiddleware ==
    \E i \in Requests :
        /\ reqs[i].onPanic = "nil"
        /\ reqs[i].panic = "xyz"
        /\ reqs[i].e = "xyz"
        /\ reqs[i].pc = "propagated"
        /\ reqs[i].status = NoStatus

\* how often step e of HandleShutdown has been taken
Times(e) == Cardinality({n \in 1..Len(srv.log) : srv.log[n] = e})

\* a shutdown trigger has occurred: a signal is in sig, a value is ready on
\* closeChan, or ListenAndServe returned an error of its own
Triggered == srv.sig = 1 \/ srv.closeReady \/ srv.err = ListenError

\* C28: whatever triggers occur and in whatever order, srv.Shutdown,
\* OnShutdownFunc and close(shutdown) are each executed at most once, and
\* exactly once by the time RunDefaultServer returns and eventually after
\* any trigger; c never holds more than its one value, and a goroutine at
\* one of the sends on c can always take that step
ShutdownExactlyOnce ==
    /\ [](/\ Times("Shutdown") <= 1 /\ Times("close") <= 1 /\ Len(srv.calls) <= 1
          /\ srv.c \in {0, 1}
          /\ srv.sigpc = "send" => ENABLED Select_send
          /\ srv.main = "send" => ENABLED Main_send
          /\ srv.main = "returned" =>
                /\ Times("Shutdown") = 1 /\ Times("close") = 1
                /\ srv.onShutdown # "nil" => Len(srv.calls) = 1)
    /\ (Triggered ~> (/\ srv.shutdown
                      /\ Times("Shutdown") = 1 /\ Times("close") = 1
                      /\ srv.onShutdown # "nil" => Len(srv.calls) = 1))

\* C28 witness: a signal was taken and sent on c, ListenAndServe failed and
\* RunDefaultServer sent on c as well, a value is still ready on closeChan,
\* and RunDefaultServer has returned after one call of OnShutdownFunc
AllTriggersOneShutdown ==
    /\ srv.main = "returned"
    /\ srv.returnError = ListenError
    /\ srv.sigpc = "done"
    /\ srv.closeReady
    /\ srv.sent = 2
    /\ Len(srv.calls) = 1

\* C29 as stated: the Lock call that inserts a fresh record leaves it with
\* count 1 and an unlocked inner lock, and returns without waiting
FreshLockNeverWaits ==
    \A g \in Goroutines :
        made[g] = "inserted" =>
            /\ pc[g] = "Lock_unlock" => recs[km[g]].count = 1 /\ ~recs[km[g]].inner
            /\ pc[g] = "Lock_inner" => ENABLED Lock_inner(g)

\* C29 amended: the Lock call that inserts a fresh record creates it with
\* count 0 and an unlocked inner lock that nobody holds, leaves it with
\* count 1 when it releases the guard, and at km.inner.Lock() waits for no
\* holder of an earlier record: it goes on at once unless a Lock call that
\* came after it, and is counted on the same record, holds the inner lock
FreshRecordNoStaleState ==
    \A g \in Goroutines :
        made[g] = "inserted" =>
            /\ pc[g] \in {"Lock_incr", "Lock_unlock", "Lock_inner"}
            /\ key[g] \in DOMAIN keyToLock /\ keyToLock[key[g]] = km[g]
            /\ pc[g] = "Lock_incr" =>
                  /\ recs[km[g]] = [key |-> key[g], count |-> 0, inner |-> FALSE]
                  /\ \A h \in Goroutines : km[g] \notin Range(held[h])
            /\ pc[g] = "Lock_unlock" => recs[km[g]].count = 1 /\ ~recs[km[g]].inner
            /\ pc[g] = "Lock_inner" =>
                  \/ ENABLED Lock_inner(g)
                  \/ /\ recs[km[g]].count >= 2
                     /\ \E h \in Goroutines \ {g} : InCS(h, key[g]) /\ Top(held[h]) = km[g]
                  \/ /\ recs[km[g]].count >= 1
                     /\ \E h \in Goroutines \ {g} :
                           /\ pc[h] \in UnlockPcs \cup {"unlock_lock"}
                           /\ Top(held[h]) = km[g]

\* C29 witness: after "a" was released and its record removed, with the
\* inner lock of the removed record still held, the next Lock("a") has
\* inserted a new record, is the only one counted on it and can acquire
\* its inner lock
FreshLockAfterRelease ==
    \E g, u \in Goroutines :
        /\ made[g] = "inserted" /\ pc[g] = "Lock_inner" /\ key[g] = "a"
        /\ CountOf("a") = 1 /\ ENABLED Lock_inner(g)
        /\ pc[u] = "Unlock_inner" /\ key[u] = "a" /\ recs[Top(held[u])].inner


(* ------------------------------------------------------------------ C30 *)
\* C30: Session.UpdateValue is an atomic read-modify-write. The calls of
\* UpdateValue, GetValue and DeleteValue on one Session are serialized by the
\* session mutex: a goroutine between the Lock() and the deferred Unlock() of
\* a method holds the mutex, so at most one goroutine is there. No update is
\* lost: the value stored under a key is the number of old+1 updates stored
\* under it since it was last absent, and the key is absent when there was
\* none (N increments of one key give N). When updateFn returns ok = false,
\* UpdateValue returns false, and the values are those the call found.
UpdateValueAtomic ==
    /\ \A c \in Callers :
           sess.pc[c] \notin {"idle", "Update_lock", "Get_lock", "Delete_lock"}
               => sess.mutex = c
    /\ \A k \in SessionKeys :
           IF sess.incs[k] = 0
           THEN k \notin DOMAIN sess.values
           ELSE k \in DOMAIN sess.values /\ sess.values[k] = sess.incs[k]
    /\ \A c \in Callers :
           sess.pc[c] = "Update_unlock" =>
               /\ (sess.ret[c] = <<FALSE>>) <=> ~sess.ok[c]
               /\ ~sess.ok[c] => sess.values = sess.seen[c]

\* every goroutine is in a call of UpdateValue with an old+1 function for the
\* key "x" at the same time: one of them has stored its value and is about to
\* return true, the others wait for the session mutex it still holds
IncrementStoredWhileOthersWait ==
    \E c \in Callers :
        /\ sess.pc[c] = "Update_unlock"
        /\ sess.key[c] = "x" /\ sess.fn[c] = "incr"
        /\ sess.ret[c] = <<TRUE>>
        /\ "x" \in DOMAIN sess.values
        /\ sess.values["x"] = sess.oldValue[c] + 1
        /\ \A d \in Callers \ {c} :
               /\ sess.pc[d] = "Update_lock"
               /\ sess.key[d] = "x" /\ sess.fn[d] = "incr"

====
